---- MODULE Spec2Model ----
(***************************************************************************)
(* A model of borges' Producer (producer.go) and of the consumer command   *)
(* (cli/borges/consumer.go).                                               *)
(*                                                                         *)
(* Producer: goroutines calling Start and Stop on one Producer, the        *)
(* publish loop of start() at statement granularity, sync.Once and         *)
(* sync.WaitGroup as the Go runtime implements them.  The unsynchronised   *)
(* accesses to p.running are interleaved at statement granularity: a read  *)
(* racing with a write observes the value before or after it.              *)
(*                                                                         *)
(* Consumer command: the goroutine executing consumerCmd.Execute, the      *)
(* watcher goroutine it spawns, the unbuffered channel term that           *)
(* os/signal sends to without blocking, and the consumer it drives.        *)
(*                                                                         *)
(* Worker pool: the archiver workers, the lock service and the rooted      *)
(* transactioner that Execute constructs, after sections 4.2 to 4.4 of the *)
(* specification (their code is outside the files modelled here).          *)
(*                                                                         *)
(* Generators: several Producers of one process calling next(), which      *)
(* increments and reads the package-level counter n.                       *)
(***************************************************************************)
EXTENDS Naturals, Integers, Sequences, FiniteSets, TLC

\* ------------------------------------------------------------------ bounds
\* goroutines that call p.Start()
NumStarters == 2
\* goroutines that call p.Stop()
NumStoppers == 2
\* loop iterations (jobs generated by next) explored
MaxJobs == 2
\* termination signals sent to the consumer process
MaxSignals == 2

\* workers of the pool (SetWorkerCount, consumer.go 110)
NumWorkers == 2
\* repository keys the delivered jobs refer to
NumRepos == 1
\* queue messages delivered to the workers
MaxDeliveries == 2
\* the time to live of a lock, in clock ticks
TTL == 1

\* Producers of one process that run their loops concurrently
NumProducers == 2
\* calls of next() made by those Producers together
MaxGenerated == 3

Starters == 1..NumStarters
Stoppers == 1..NumStoppers
Workers == 1..NumWorkers
Repos == 1..NumRepos
Producers == 1..NumProducers

VARIABLES
    \* ---- Producer fields (producer.go 11-21)
    running,      \* p.running
    startOnce,    \* p.startOnce: "fresh", "running" (f executing), "done"
    stopOnce,     \* p.stopOnce
    wg,           \* p.wg counter
    hasDone,      \* p.Notifiers.Done # nil
    \* ---- package level
    n,            \* var n uint64 (producer.go 83)
    \* ---- control state
    spc,          \* spc[s]: position of goroutine s in Start()
    tpc,          \* tpc[t]: position of goroutine t in Stop()
    lpc,          \* position of the goroutine executing start()
    cur,          \* locals j, err of the current iteration
    \* ---- observations
    publishedLog, \* RepositoryIDs accepted by queue.Publish, in order
    doneLog,      \* calls of Notifiers.Done: <<id, err>>
    errorCalled,  \* calls of the QueueError notifier the caller installed
    obtained,     \* jobs returned by next() with a nil error
    srcErrs,      \* calls of next() that returned an error
    clears,      \* executions of p.running = false
    atClear,      \* <<publishes, Done calls>> that preceded p.running = false
    loopStarts,   \* executions of start()
    firstStop,    \* when the first Stop call was issued: "none" (not yet), "early"
                  \* (before start() set running), "joining" (before wg.Add),
                  \* "active" (the loop was active)
    repeatStop,   \* a Stop call was issued after a Stop call had completed
    runnerLate,   \* the Start call that executes start() was issued after a Stop
                  \* call had returned
    lateEffect,   \* a Publish or Done happened after some Stop call had returned
    \* ---- consumer command (cli/borges/consumer.go 64-131)
    cpc,          \* position of the goroutine executing Execute
    cstep,        \* index of the startup call Execute is at
    cerr,         \* the error Execute returns ("nil" or the failed call)
    brokerOpen,   \* the broker b is open (defer b.Close() pending)
    poolCreated,  \* the worker pool and the consumer were created
    acState,      \* the consumer ac: "new", "running", "stopping", "stopped", "failed"
    acBusy,       \* a worker of the consumer is processing a job
    wpc,          \* position of the watcher goroutine
    registered,   \* signal.Notify(term, ...) has run
    doneClosed,   \* close(done) has run
    sigPending,   \* signals received by the runtime, not yet relayed to term
    termBuf,      \* signals buffered in the channel term
    sigArrived,   \* signals sent to the process so far
    sigDropped,   \* signals os/signal could not send on term
    sigInScope,   \* a signal arrived after Notify while the consumer was running
    stopCause,    \* why the watcher called ac.Stop: "none", "signal", "done"
    \* ---- worker pool, lock service and rooted transactioner
    wkpc,         \* wkpc[w]: position of worker w in its unit of work
    wkRepo,       \* wkRepo[w]: repositoryID of the job worker w processes (0: none)
    wkOutcome,    \* wkOutcome[w]: "none", "ok", "failed", "timeout"
    wkTx,         \* wkTx[w]: "none", "open", "committed", "failed", "abandoned"
    txBase,       \* txBase[w]: the durable version read by Begin
    workspace,    \* workspace[w]: the version in the ephemeral workspace
    handles,      \* handles[k]: workers holding a LockHandle for key k
    age,          \* age[k]: ticks since the holder of k last renewed
    durable,      \* durable[k]: the durable version of rooted repository k
    delivered,    \* messages delivered so far
    lastFree,     \* lastFree[k]: how k was last freed ("never", an outcome, "expired")
    \* ---- several Producers sharing the package-level n (producer.go 83-90)
    gpc,          \* gpc[p]: position of Producer p's loop inside next()
    greg,         \* greg[p]: the value of n loaded by p's n++
    genLog        \* the jobs returned by next(): [p, id], in order

pvars == <<running, startOnce, stopOnce, wg, hasDone, n, spc, tpc, lpc, cur,
           publishedLog, doneLog, errorCalled, obtained, srcErrs, clears, atClear, loopStarts,
           firstStop, repeatStop, runnerLate, lateEffect>>

cvars == <<cpc, cstep, cerr, brokerOpen, poolCreated, acState, acBusy, wpc, registered,
           doneClosed, sigPending, termBuf, sigArrived, sigDropped, sigInScope, stopCause>>

wvars == <<wkpc, wkRepo, wkOutcome, wkTx, txBase, workspace, handles, age, durable,
           delivered, lastFree>>

gvars == <<gpc, greg, genLog>>

\* the state beside the producer and the consumer command
ovars == <<wvars, gvars>>

vars == <<pvars, cvars, ovars>>

\* ------------------------------------------------------------- helpers
NoJob == [id |-> 0, err |-> "nil"]

\* the loop of start() is active: running was set, the wait group was joined
\* and wg.Done has not run yet
LoopActive == lpc \in {"check", "next", "sleep", "encode", "publish", "notify", "break"}

\* start() has been entered and has not returned
InStart == lpc \in {"l49", "l50"} \/ LoopActive

LoopExited == lpc = "exited"

SomeStopReturned == \E t \in Stoppers : tpc[t] = "returned"

\* IsRunning (producer.go 34-36)
IsRunning == running

\* ------------------------------------------------------------------ Init
\* NewProducer (producer.go 24-31); the notifiers are set by the caller.
PInit ==
    /\ running = FALSE
    /\ startOnce = "fresh"
    /\ stopOnce = "fresh"
    /\ wg = 0
    /\ hasDone \in BOOLEAN
    /\ n = 0
    /\ spc = [s \in Starters |-> "idle"]
    /\ tpc = [t \in Stoppers |-> "idle"]
    /\ lpc = "idle"
    /\ cur = NoJob
    /\ publishedLog = <<>>
    /\ doneLog = <<>>
    /\ errorCalled = 0
    /\ obtained = 0
    /\ srcErrs = 0
    /\ clears = 0
    /\ loopStarts = 0
    /\ firstStop = "none"
    /\ repeatStop = FALSE
    /\ runnerLate = FALSE
    /\ lateEffect = FALSE
    /\ atClear = <<0, 0>>

\* ------------------------------------------------- Start (producer.go 38-41)
\* sync.Once.Do runs f in the first caller only
StartRuns == startOnce = "fresh"

\* p.startOnce.Do(p.start): the first caller executes start(), a caller arriving
\* while start() executes blocks in Do until it returns, a later one returns.
\* (While the Once is fresh start() is not executing: ~InStart only keeps a Start
\* without the Once from entering start() while it is being executed.)
StartCall(s) ==
    /\ spc[s] = "idle"
    /\ IF StartRuns
         THEN /\ ~InStart
              /\ startOnce' = "running"
              /\ spc' = [spc EXCEPT ![s] = "body"]
              /\ lpc' = "l49"
              /\ loopStarts' = loopStarts + 1
              /\ runnerLate' = SomeStopReturned
         ELSE /\ spc' = [spc EXCEPT ![s] = IF startOnce = "done" THEN "returned"
                                                               ELSE "blocked"]
              /\ UNCHANGED <<startOnce, lpc, loopStarts, runnerLate>>
    /\ UNCHANGED <<running, stopOnce, wg, hasDone, n, tpc, cur, publishedLog, doneLog,
                   errorCalled, obtained, srcErrs, clears, atClear, firstStop, repeatStop,
                   lateEffect, cvars, ovars>>

\* a caller blocked in Once.Do returns when start() has returned
StartUnblock(s) ==
    /\ spc[s] = "blocked"
    /\ startOnce = "done"
    /\ spc' = [spc EXCEPT ![s] = "returned"]
    /\ UNCHANGED <<running, startOnce, stopOnce, wg, hasDone, n, tpc, lpc, cur,
                   publishedLog, doneLog, errorCalled, obtained, srcErrs, clears, atClear,
                   loopStarts, firstStop, repeatStop, runnerLate, lateEffect, cvars, ovars>>

\* start() returned: Once.Do marks the Once done and Start returns
StartReturn(s) ==
    /\ spc[s] = "body"
    /\ lpc = "exited"
    /\ startOnce' = "done"
    /\ spc' = [spc EXCEPT ![s] = "returned"]
    /\ UNCHANGED <<running, stopOnce, wg, hasDone, n, tpc, lpc, cur, publishedLog,
                   doneLog, errorCalled, obtained, srcErrs, clears, atClear, loopStarts,
                   firstStop, repeatStop, runnerLate, lateEffect, cvars, ovars>>

\* ------------------------------------------------- start (producer.go 48-76)
\* what the loop leaves unchanged in every step
LoopFrame == UNCHANGED <<startOnce, stopOnce, hasDone, spc, tpc, clears, atClear, loopStarts,
                         firstStop, repeatStop, runnerLate, cvars, ovars>>

\* p.running = true
SetRunning ==
    /\ lpc = "l49"
    /\ running' = TRUE
    /\ lpc' = "l50"
    /\ LoopFrame
    /\ UNCHANGED <<wg, n, cur, publishedLog, doneLog, errorCalled, obtained, srcErrs,
                   lateEffect>>

\* p.wg.Add(1); defer p.wg.Done()
WgAdd ==
    /\ lpc = "l50"
    /\ wg' = wg + 1
    /\ lpc' = "check"
    /\ LoopFrame
    /\ UNCHANGED <<running, n, cur, publishedLog, doneLog, errorCalled, obtained,
                   srcErrs, lateEffect>>

\* a loop that never looks at the flag
LoopBreaksNever == FALSE

\* if !p.running { break }
LoopBreaks == ~running

LoopCheck ==
    /\ lpc = "check"
    /\ IF LoopBreaks
         THEN lpc' = "break"
         ELSE /\ n < MaxJobs
              /\ lpc' = "next"
    /\ LoopFrame
    /\ UNCHANGED <<running, wg, n, cur, publishedLog, doneLog, errorCalled, obtained,
                   srcErrs, lateEffect>>

\* next: n++ (producer.go 87)
NextIncrement ==
    /\ lpc = "next"
    /\ n' = n + 1
    /\ lpc' = "sleep"
    /\ LoopFrame
    /\ UNCHANGED <<running, wg, cur, publishedLog, doneLog, errorCalled, obtained,
                   srcErrs, lateEffect>>

\* the results a job source can give: a job, or an error
SourceOutcomes == {"job", "error"}

\* a loop that gives up on a source error
AfterSourceErrorBreak == "break"

\* if err != nil { continue }: where the loop goes after a source error
AfterSourceError == "check"

\* the QueueError notifier calls made for one source error (//TODO: error handling)
ReportSourceError == errorCalled

\* next: time.Sleep; return &Job{RepositoryID: n}, nil  and  if err != nil
NextReturn ==
    /\ lpc = "sleep"
    /\ \E r \in SourceOutcomes :
         IF r = "job"
           THEN /\ cur' = [id |-> n, err |-> "nil"]
                /\ obtained' = obtained + 1
                /\ lpc' = "encode"
                /\ UNCHANGED <<srcErrs, errorCalled>>
           ELSE /\ srcErrs' = srcErrs + 1
                /\ errorCalled' = ReportSourceError
                /\ lpc' = AfterSourceError
                /\ UNCHANGED <<cur, obtained>>
    /\ LoopFrame
    /\ UNCHANGED <<running, wg, n, publishedLog, doneLog, lateEffect>>

\* where the loop goes after job.Encode failed (notifyDone(j, err); continue)
AfterEncodeError == "notify"

\* job := queue.NewJob(); if err := job.Encode(j); err != nil
Encode ==
    /\ lpc = "encode"
    /\ \E ok \in BOOLEAN :
         IF ok
           THEN /\ lpc' = "publish"
                /\ UNCHANGED cur
           ELSE /\ cur' = [cur EXCEPT !.err = "encode"]
                /\ lpc' = AfterEncodeError
    /\ LoopFrame
    /\ UNCHANGED <<running, wg, n, publishedLog, doneLog, errorCalled, obtained,
                   srcErrs, lateEffect>>

\* a loop that drops the error of Publish
PublishResultDropped(ok) == "nil"

\* the error passed to notifyDone after p.queue.Publish(job)
PublishResult(ok) == IF ok THEN "nil" ELSE "publish"

\* if err := p.queue.Publish(job); err != nil
Publish ==
    /\ lpc = "publish"
    /\ \E ok \in BOOLEAN :
         /\ publishedLog' = IF ok THEN Append(publishedLog, cur.id) ELSE publishedLog
         /\ cur' = [cur EXCEPT !.err = PublishResult(ok)]
         /\ lateEffect' = (lateEffect \/ (ok /\ SomeStopReturned))
    /\ lpc' = "notify"
    /\ LoopFrame
    /\ UNCHANGED <<running, wg, n, doneLog, errorCalled, obtained, srcErrs>>

\* a notifyDone that calls p.Notifiers.Done without testing it for nil
NotifyDoneReturnsIfSet(installed) == installed

\* notifyDone returns to the loop: at once if p.Notifiers.Done == nil, after
\* the callback otherwise (producer.go 93-97)
NotifyDoneReturns(installed) == TRUE

\* notifyDone (producer.go 92-98)
NotifyDone(j) == IF hasDone THEN Append(doneLog, j) ELSE doneLog

\* p.notifyDone(j, err); continue   and   p.notifyDone(j, nil): the iteration
\* ends and its locals j, err go out of scope
Notify ==
    /\ lpc = "notify"
    /\ doneLog' = NotifyDone(cur)
    /\ lateEffect' = (lateEffect \/ (hasDone /\ SomeStopReturned))
    /\ cur' = NoJob
    /\ lpc' = IF NotifyDoneReturns(hasDone) THEN "check" ELSE "panic"
    /\ LoopFrame
    /\ UNCHANGED <<running, wg, n, publishedLog, errorCalled, obtained, srcErrs>>

\* break; the deferred p.wg.Done() runs as start() returns
WgDone ==
    /\ lpc = "break"
    /\ wg' = wg - 1
    /\ lpc' = "exited"
    /\ LoopFrame
    /\ UNCHANGED <<running, n, cur, publishedLog, doneLog, errorCalled, obtained,
                   srcErrs, lateEffect>>

\* -------------------------------------------------- Stop (producer.go 43-46)
\* a Stop that calls stop() without the Once
StopRunsEveryCall == TRUE

\* sync.Once.Do runs f in the first caller only
StopRuns == stopOnce = "fresh"

\* p.stopOnce.Do(p.stop)
StopCall(t) ==
    /\ tpc[t] = "idle"
    /\ firstStop' = IF firstStop # "none" THEN firstStop
                    ELSE IF lpc \in {"idle", "l49"} THEN "early"
                    ELSE IF lpc = "l50" THEN "joining"
                    ELSE "active"
    /\ repeatStop' = (repeatStop \/ stopOnce = "done")
    /\ IF StopRuns
         THEN /\ stopOnce' = "running"
              /\ tpc' = [tpc EXCEPT ![t] = "l79"]
         ELSE /\ tpc' = [tpc EXCEPT ![t] = IF stopOnce = "done" THEN "returned" ELSE "blocked"]
              /\ UNCHANGED stopOnce
    /\ UNCHANGED <<running, startOnce, wg, hasDone, n, spc, lpc, cur, publishedLog,
                   doneLog, errorCalled, obtained, srcErrs, clears, atClear, loopStarts,
                   runnerLate, lateEffect, cvars, ovars>>

\* a caller blocked in Once.Do returns when stop() has returned
StopUnblock(t) ==
    /\ tpc[t] = "blocked"
    /\ stopOnce = "done"
    /\ tpc' = [tpc EXCEPT ![t] = "returned"]
    /\ UNCHANGED <<running, startOnce, stopOnce, wg, hasDone, n, spc, lpc, cur,
                   publishedLog, doneLog, errorCalled, obtained, srcErrs, clears, atClear,
                   loopStarts, firstStop, repeatStop, runnerLate, lateEffect, cvars, ovars>>

\* ------------------------------------------------- stop (producer.go 78-81)
\* the assignment  p.running = false  and what it leaves unchanged
ClearFlag(t) ==
    /\ tpc[t] = "l79"
    /\ running' = FALSE
    /\ clears' = clears + 1
    /\ tpc' = [tpc EXCEPT ![t] = "l80"]
    /\ UNCHANGED <<startOnce, stopOnce, wg, hasDone, n, spc, lpc, cur, publishedLog,
                   doneLog, errorCalled, obtained, srcErrs, loopStarts, firstStop, repeatStop,
                   runnerLate, lateEffect, cvars, ovars>>

\* p.running = false
StopClear(t) == ClearFlag(t) /\ UNCHANGED atClear

\* p.running = false, with the publishes and Done calls that preceded it recorded
StopClearCounted(t) ==
    /\ ClearFlag(t)
    /\ atClear' = <<Len(publishedLog), Len(doneLog)>>

\* a stop() that does not wait for the loop
WaitReturnsAtOnce == TRUE

\* p.wg.Wait() returns when the counter is zero
WaitReturns == wg = 0

\* p.wg.Wait(); stop() returns, Once.Do marks the Once done and Stop returns
StopWait(t) ==
    /\ tpc[t] = "l80"
    /\ WaitReturns
    /\ stopOnce' = "done"
    /\ tpc' = [tpc EXCEPT ![t] = "returned"]
    /\ UNCHANGED <<running, startOnce, wg, hasDone, n, spc, lpc, cur, publishedLog,
                   doneLog, errorCalled, obtained, srcErrs, clears, atClear, loopStarts,
                   firstStop, repeatStop, runnerLate, lateEffect, cvars, ovars>>


\* ===================================================== consumer command
\* the calls of Execute that can fail, in order (consumer.go 67-101)
StartupCalls == <<"openDatabase", "newTemporaryFilesystem", "newRootedTransactioner",
                  "lock.New", "queue.NewBroker", "b.Queue", "time.ParseDuration">>

CInit ==
    /\ cpc = "startup"
    /\ cstep = 1
    /\ cerr = "nil"
    /\ brokerOpen = FALSE
    /\ poolCreated = FALSE
    /\ acState = "new"
    /\ acBusy = FALSE
    /\ wpc = "none"
    /\ registered = FALSE
    /\ doneClosed = FALSE
    /\ sigPending = 0
    /\ termBuf = 0
    /\ sigArrived = 0
    /\ sigDropped = 0
    /\ sigInScope = FALSE
    /\ stopCause = "none"

\* the process has not been terminated by a signal
Alive == cpc # "killed"

\* a variant in which the error of time.ParseDuration is not examined
ErrorReturnedButTimeout(call) == call # "time.ParseDuration"

\* each startup call is followed by  if err != nil { return err }
ErrorReturned(call) == TRUE

\* one startup call and its  if err != nil { return err }  (consumer.go 67-101);
\* b.Close() is deferred once the broker is open
StartupCall ==
    /\ cpc = "startup"
    /\ \E ok \in BOOLEAN :
         IF ok \/ ~ErrorReturned(StartupCalls[cstep])
           THEN /\ brokerOpen' = (brokerOpen
                                  \/ (ok /\ StartupCalls[cstep] = "queue.NewBroker"))
                /\ IF cstep = Len(StartupCalls)
                     THEN cpc' = "pool" /\ UNCHANGED cstep
                     ELSE cstep' = cstep + 1 /\ UNCHANGED cpc
                /\ cerr' = IF ok THEN cerr ELSE StartupCalls[cstep]
           ELSE /\ cerr' = StartupCalls[cstep]
                /\ brokerOpen' = FALSE
                /\ cpc' = "returned"
                /\ UNCHANGED cstep
    /\ UNCHANGED <<poolCreated, acState, wpc, registered, doneClosed, sigPending,
                   termBuf, sigArrived, sigDropped, sigInScope, stopCause, acBusy, pvars, ovars>>

\* wp := borges.NewArchiverWorkerPool(...); ac := borges.NewConsumer(q, wp)
CreateConsumer ==
    /\ cpc = "pool"
    /\ poolCreated' = TRUE
    /\ cpc' = "spawn"
    /\ UNCHANGED <<cstep, cerr, brokerOpen, acState, wpc, registered, doneClosed,
                   sigPending, termBuf, sigArrived, sigDropped, sigInScope, stopCause,
                   acBusy, pvars, ovars>>

\* the buffer of  term = make(chan os.Signal)
TermCapacity == 0

\* var term, done; go func() { select ... }()
SpawnWatcher ==
    /\ cpc = "spawn"
    /\ wpc' = "spawned"
    /\ cpc' = "notify"
    /\ UNCHANGED <<cstep, cerr, brokerOpen, poolCreated, acState, registered,
                   doneClosed, sigPending, termBuf, sigArrived, sigDropped,
                   sigInScope, stopCause, acBusy, pvars, ovars>>

\* signal.Notify(term, syscall.SIGTERM, os.Interrupt)
SignalNotify ==
    /\ cpc = "notify"
    /\ registered' = TRUE
    /\ cpc' = "start"
    /\ UNCHANGED <<cstep, cerr, brokerOpen, poolCreated, acState, wpc, doneClosed,
                   sigPending, termBuf, sigArrived, sigDropped, sigInScope, stopCause,
                   acBusy, pvars, ovars>>

\* err = ac.Start(): the consumer starts consuming and Start blocks
AcStart ==
    /\ cpc = "start"
    /\ acState' = IF acState = "new" THEN "running" ELSE acState
    /\ cpc' = "running"
    /\ UNCHANGED <<cstep, cerr, brokerOpen, poolCreated, wpc, registered, doneClosed,
                   sigPending, termBuf, sigArrived, sigDropped, sigInScope, stopCause,
                   acBusy, pvars, ovars>>

\* the consumer is consuming: Start was called and has not returned
ConsumerRunning == cpc = "running" /\ acState = "running"

\* a worker takes a job from the queue, or finishes the one it has
ConsumerWork ==
    /\ ConsumerRunning
    /\ acBusy' = ~acBusy
    /\ UNCHANGED <<cpc, cstep, cerr, brokerOpen, poolCreated, acState, wpc, registered,
                   doneClosed, sigPending, termBuf, sigArrived, sigDropped, sigInScope,
                   stopCause, pvars, ovars>>

\* ac.Start() returns nil once Stop was called and the workers finished
AcStartStopped ==
    /\ cpc = "running"
    /\ acState = "stopping"
    /\ acState' = "stopped"
    /\ acBusy' = FALSE
    /\ cerr' = "nil"
    /\ cpc' = "close"
    /\ UNCHANGED <<cstep, brokerOpen, poolCreated, wpc, registered, doneClosed,
                   sigPending, termBuf, sigArrived, sigDropped, sigInScope, stopCause,
                   pvars, ovars>>

\* ac.Start() returns an error of its own
AcStartFails ==
    /\ cpc = "running"
    /\ acState = "running"
    /\ acState' = "failed"
    /\ acBusy' = FALSE
    /\ cerr' = "ac.Start"
    /\ cpc' = "close"
    /\ UNCHANGED <<cstep, brokerOpen, poolCreated, wpc, registered, doneClosed,
                   sigPending, termBuf, sigArrived, sigDropped, sigInScope, stopCause,
                   pvars, ovars>>

\* close(done)
CloseDone ==
    /\ cpc = "close"
    /\ doneClosed' = TRUE
    /\ cpc' = "return"
    /\ UNCHANGED <<cstep, cerr, brokerOpen, poolCreated, acState, wpc, registered,
                   sigPending, termBuf, sigArrived, sigDropped, sigInScope, stopCause,
                   acBusy, pvars, ovars>>

\* return err, running the deferred b.Close()
ExecuteReturn ==
    /\ cpc = "return"
    /\ brokerOpen' = FALSE
    /\ cpc' = "returned"
    /\ UNCHANGED <<cstep, cerr, poolCreated, acState, wpc, registered, doneClosed,
                   sigPending, termBuf, sigArrived, sigDropped, sigInScope, stopCause,
                   acBusy, pvars, ovars>>

\* the watcher goroutine is scheduled and reaches its select; a signal already
\* buffered in term is received at once
WatcherSelect ==
    /\ Alive
    /\ wpc = "spawned"
    /\ IF termBuf > 0
         THEN /\ termBuf' = termBuf - 1
              /\ wpc' = "stop"
              /\ stopCause' = "signal"
         ELSE /\ wpc' = "select"
              /\ UNCHANGED <<termBuf, stopCause>>
    /\ UNCHANGED <<cpc, cstep, cerr, brokerOpen, poolCreated, acState, registered,
                   doneClosed, sigPending, sigArrived, sigDropped, sigInScope, acBusy, pvars, ovars>>

\* case <-done:
WatcherDone ==
    /\ Alive
    /\ wpc = "select"
    /\ doneClosed
    /\ wpc' = "stop"
    /\ stopCause' = "done"
    /\ UNCHANGED <<cpc, cstep, cerr, brokerOpen, poolCreated, acState, registered,
                   doneClosed, sigPending, termBuf, sigArrived, sigDropped, sigInScope,
                   acBusy, pvars, ovars>>

\* ac.Stop() is called: a running consumer is told to stop, and Stop waits for it
WatcherStop ==
    /\ Alive
    /\ wpc = "stop"
    /\ IF acState = "running"
         THEN acState' = "stopping" /\ wpc' = "stopwait"
         ELSE UNCHANGED acState /\ wpc' = "finished"
    /\ UNCHANGED <<cpc, cstep, cerr, brokerOpen, poolCreated, registered, doneClosed,
                   sigPending, termBuf, sigArrived, sigDropped, sigInScope, stopCause,
                   acBusy, pvars, ovars>>

\* ac.Stop() returns when the consumer has stopped
WatcherStopReturn ==
    /\ Alive
    /\ wpc = "stopwait"
    /\ acState \in {"stopped", "failed"}
    /\ wpc' = "finished"
    /\ UNCHANGED <<cpc, cstep, cerr, brokerOpen, poolCreated, acState, registered,
                   doneClosed, sigPending, termBuf, sigArrived, sigDropped, sigInScope,
                   stopCause, acBusy, pvars, ovars>>

\* SIGTERM or interrupt is sent to the process: before signal.Notify the default
\* disposition ends the process, after it the runtime queues the signal
SignalArrive ==
    /\ Alive
    /\ cpc # "returned"
    /\ sigArrived < MaxSignals
    /\ sigArrived' = sigArrived + 1
    /\ IF registered
         THEN /\ sigPending' = sigPending + 1
              /\ sigInScope' = (sigInScope \/ ConsumerRunning)
              /\ UNCHANGED cpc
         ELSE /\ cpc' = "killed"
              /\ UNCHANGED <<sigPending, sigInScope>>
    /\ UNCHANGED <<cstep, cerr, brokerOpen, poolCreated, acState, wpc, registered,
                   doneClosed, termBuf, sigDropped, stopCause, acBusy, pvars, ovars>>

\* os/signal relays a queued signal to term with a non-blocking send: it is taken
\* by a receiver waiting in the select (case <-term:), else buffered if term has
\* room, else dropped
SignalRelay ==
    /\ Alive
    /\ sigPending > 0
    /\ sigPending' = sigPending - 1
    /\ IF wpc = "select"
         THEN /\ wpc' = "stop"
              /\ stopCause' = "signal"
              /\ UNCHANGED <<termBuf, sigDropped>>
         ELSE IF termBuf < TermCapacity
           THEN /\ termBuf' = termBuf + 1
                /\ UNCHANGED <<wpc, stopCause, sigDropped>>
           ELSE /\ sigDropped' = sigDropped + 1
                /\ UNCHANGED <<wpc, stopCause, termBuf>>
    /\ UNCHANGED <<cpc, cstep, cerr, brokerOpen, poolCreated, acState, registered,
                   doneClosed, sigArrived, sigInScope, acBusy, pvars, ovars>>

\* ============================================ worker pool, lock, transactions
\* The archiver workers, the lock service and the rooted transactioner that
\* Execute wires together (consumer.go 77-110), after sections 4.2 to 4.4 of
\* the specification.  A worker stands for a worker of any process of the
\* fleet; a worker that dies stands for the death of its process.
WInit ==
    /\ wkpc = [w \in Workers |-> "consume"]
    /\ wkRepo = [w \in Workers |-> 0]
    /\ wkOutcome = [w \in Workers |-> "none"]
    /\ wkTx = [w \in Workers |-> "none"]
    /\ txBase = [w \in Workers |-> 0]
    /\ workspace = [w \in Workers |-> 0]
    /\ handles = [k \in Repos |-> {}]
    /\ age = [k \in Repos |-> 0]
    /\ durable = [k \in Repos |-> 0]
    /\ delivered = 0
    /\ lastFree = [k \in Repos |-> "never"]

\* the positions of the archival unit of work: clone, begin, apply, commit
UnitPcs == {"clone", "begin", "apply", "commit"}

\* worker w is inside the unit of work for key k
InUnit(w, k) == wkpc[w] \in UnitPcs /\ wkRepo[w] = k

\* the workers whose process has died
Dead == {w \in Workers : wkpc[w] = "dead"}

\* consume one message and decode it; a message that cannot be decoded is failed
Consume(w) ==
    /\ wkpc[w] = "consume"
    /\ delivered < MaxDeliveries
    /\ delivered' = delivered + 1
    /\ \E k \in Repos, decoded \in BOOLEAN :
         IF decoded
           THEN /\ wkpc' = [wkpc EXCEPT ![w] = "acquire"]
                /\ wkRepo' = [wkRepo EXCEPT ![w] = k]
           ELSE UNCHANGED <<wkpc, wkRepo>>
    /\ UNCHANGED <<wkOutcome, wkTx, txBase, workspace, handles, age, durable, lastFree,
                   pvars, cvars, gvars>>

\* a variant of the lock service that grants a held key
LockFreeAlways(k) == TRUE

\* no LockHandle for key k exists
LockFree(k) == handles[k] = {}

\* Acquire(key, ttl): a handle is created if the backend answers and the key is
\* free; otherwise the message is released for a later retry
Acquire(w) ==
    /\ wkpc[w] = "acquire"
    /\ \E answered \in BOOLEAN :
         IF answered /\ LockFree(wkRepo[w])
           THEN /\ handles' = [handles EXCEPT ![wkRepo[w]] = @ \cup {w}]
                /\ age' = [age EXCEPT ![wkRepo[w]] = 0]
                /\ wkpc' = [wkpc EXCEPT ![w] = "clone"]
                /\ UNCHANGED wkRepo
           ELSE /\ wkpc' = [wkpc EXCEPT ![w] = "consume"]
                /\ wkRepo' = [wkRepo EXCEPT ![w] = 0]
                /\ UNCHANGED <<handles, age>>
    /\ UNCHANGED <<wkOutcome, wkTx, txBase, workspace, durable, delivered, lastFree,
                   pvars, cvars, gvars>>

\* the unit of work of w ends with the given outcome and goes on to the release
EndUnit(w, outcome) ==
    /\ wkpc' = [wkpc EXCEPT ![w] = "release"]
    /\ wkOutcome' = [wkOutcome EXCEPT ![w] = outcome]

\* clone or fetch the repository into an ephemeral workspace
Clone(w) ==
    /\ wkpc[w] = "clone"
    /\ \E ok \in BOOLEAN :
         IF ok
           THEN wkpc' = [wkpc EXCEPT ![w] = "begin"] /\ UNCHANGED wkOutcome
           ELSE EndUnit(w, "failed")
    /\ UNCHANGED <<wkRepo, wkTx, txBase, workspace, handles, age, durable, delivered,
                   lastFree, pvars, cvars, gvars>>

\* Begin(rootID): check the current durable version out into the workspace
Begin(w) ==
    /\ wkpc[w] = "begin"
    /\ \E ok \in BOOLEAN :
         IF ok
           THEN /\ wkpc' = [wkpc EXCEPT ![w] = "apply"]
                /\ wkTx' = [wkTx EXCEPT ![w] = "open"]
                /\ txBase' = [txBase EXCEPT ![w] = durable[wkRepo[w]]]
                /\ workspace' = [workspace EXCEPT ![w] = durable[wkRepo[w]]]
                /\ UNCHANGED wkOutcome
           ELSE /\ EndUnit(w, "failed")
                /\ UNCHANGED <<wkTx, txBase, workspace>>
    /\ UNCHANGED <<wkRepo, handles, age, durable, delivered, lastFree, pvars, cvars, gvars>>

\* apply the fetched content to the workspace
Apply(w) ==
    /\ wkpc[w] = "apply"
    /\ workspace' = [workspace EXCEPT ![w] = @ + 1]
    /\ wkpc' = [wkpc EXCEPT ![w] = "commit"]
    /\ UNCHANGED <<wkRepo, wkOutcome, wkTx, txBase, handles, age, durable, delivered,
                   lastFree, pvars, cvars, gvars>>

\* a variant of Commit that writes the workspace even when it fails
CommitResultTorn(ok, prior, ws) == ws

\* the durable version after Commit: replaced atomically, or left as it was
CommitResult(ok, prior, ws) == IF ok THEN ws ELSE prior

\* Transaction.Commit()
Commit(w) ==
    /\ wkpc[w] = "commit"
    /\ \E ok \in BOOLEAN :
         /\ durable' = [durable EXCEPT
                          ![wkRepo[w]] = CommitResult(ok, @, workspace[w])]
         /\ wkTx' = [wkTx EXCEPT ![w] = IF ok THEN "committed" ELSE "failed"]
         /\ EndUnit(w, IF ok THEN "ok" ELSE "failed")
    /\ UNCHANGED <<wkRepo, txBase, workspace, handles, age, delivered, lastFree,
                   pvars, cvars, gvars>>

\* the deadline of the unit of work fires: the in-flight clone or transaction
\* is aborted and the job is treated as failed
DeadlineExceeded(w) ==
    /\ wkpc[w] \in UnitPcs
    /\ wkTx' = [wkTx EXCEPT ![w] = IF @ = "open" THEN "abandoned" ELSE @]
    /\ EndUnit(w, "timeout")
    /\ UNCHANGED <<wkRepo, txBase, workspace, handles, age, durable, delivered,
                   lastFree, pvars, cvars, gvars>>

\* a variant of the worker that keeps its handle after a deadline expiry
ReleasedOnButTimeout(outcome) == outcome # "timeout"

\* the handle is released whatever the outcome of the unit of work
ReleasedOn(outcome) == TRUE

\* Handle.Release(), the ephemeral workspace is discarded and the worker goes
\* back to consuming
Release(w) ==
    /\ wkpc[w] = "release"
    /\ IF ReleasedOn(wkOutcome[w])
         THEN /\ handles' = [handles EXCEPT ![wkRepo[w]] = @ \ {w}]
              /\ lastFree' = [lastFree EXCEPT ![wkRepo[w]] = wkOutcome[w]]
         ELSE UNCHANGED <<handles, lastFree>>
    /\ wkpc' = [wkpc EXCEPT ![w] = "consume"]
    /\ wkRepo' = [wkRepo EXCEPT ![w] = 0]
    /\ wkOutcome' = [wkOutcome EXCEPT ![w] = "none"]
    /\ wkTx' = [wkTx EXCEPT ![w] = "none"]
    /\ txBase' = [txBase EXCEPT ![w] = 0]
    /\ workspace' = [workspace EXCEPT ![w] = 0]
    /\ UNCHANGED <<age, durable, delivered, pvars, cvars, gvars>>

\* the process of a worker that holds a handle is killed; one worker survives
Die(w) ==
    /\ wkpc[w] \in UnitPcs \cup {"release"}
    /\ Cardinality(Dead) + 1 < NumWorkers
    /\ wkpc' = [wkpc EXCEPT ![w] = "dead"]
    /\ UNCHANGED <<wkRepo, wkOutcome, wkTx, txBase, workspace, handles, age, durable,
                   delivered, lastFree, pvars, cvars, gvars>>

\* key k is held by a worker whose process died
HeldByDead(k) == handles[k] \cap Dead # {}

\* the clock advances for a handle that is no longer renewed
Tick(k) ==
    /\ HeldByDead(k)
    /\ age[k] < TTL
    /\ age' = [age EXCEPT ![k] = @ + 1]
    /\ UNCHANGED <<wkpc, wkRepo, wkOutcome, wkTx, txBase, workspace, handles, durable,
                   delivered, lastFree, pvars, cvars, gvars>>

\* a variant of the lock backend without expiry
ExpiresNever(a) == FALSE

\* a handle expires once its time to live has elapsed
Expires(a) == a >= TTL

\* the backend drops the expired handle of a dead holder
Expire(k) ==
    /\ HeldByDead(k)
    /\ Expires(age[k])
    /\ handles' = [handles EXCEPT ![k] = @ \ Dead]
    /\ age' = [age EXCEPT ![k] = 0]
    /\ lastFree' = [lastFree EXCEPT ![k] = "expired"]
    /\ UNCHANGED <<wkpc, wkRepo, wkOutcome, wkTx, txBase, workspace, durable,
                   delivered, pvars, cvars, gvars>>

\* ================================= several Producers and the shared counter
\* The loops of several Producers of one process, reduced to their calls of
\* next(): all of them increment and read the one package-level n.  n++ is an
\* unsynchronised load and store, interleaved at that granularity.
GInit ==
    /\ gpc = [p \in Producers |-> "loop"]
    /\ greg = [p \in Producers |-> 0]
    /\ genLog = <<>>

\* what a step of next() leaves unchanged
GenFrame == UNCHANGED <<running, startOnce, stopOnce, wg, hasDone, spc, tpc, lpc, cur,
                        publishedLog, doneLog, errorCalled, obtained, srcErrs, clears,
                        atClear, loopStarts, firstStop, repeatStop, runnerLate,
                        lateEffect, cvars, wvars>>

\* calls of next() begun so far
GenCalls == Len(genLog) + Cardinality({p \in Producers : gpc[p] # "loop"})

\* j, err := p.next()  (producer.go 57)
GenCall(p) ==
    /\ gpc[p] = "loop"
    /\ GenCalls < MaxGenerated
    /\ gpc' = [gpc EXCEPT ![p] = "load"]
    /\ UNCHANGED <<n, greg, genLog>>
    /\ GenFrame

\* n++ : load n
GenLoad(p) ==
    /\ gpc[p] = "load"
    /\ greg' = [greg EXCEPT ![p] = n]
    /\ gpc' = [gpc EXCEPT ![p] = "store"]
    /\ UNCHANGED <<n, genLog>>
    /\ GenFrame

\* n++ : store the incremented value
GenStore(p) ==
    /\ gpc[p] = "store"
    /\ n' = greg[p] + 1
    /\ gpc' = [gpc EXCEPT ![p] = "sleep"]
    /\ UNCHANGED <<greg, genLog>>
    /\ GenFrame

\* time.Sleep(time.Millisecond * 500); return &Job{RepositoryID: n}, nil
GenReturn(p) ==
    /\ gpc[p] = "sleep"
    /\ genLog' = Append(genLog, [p |-> p, id |-> n])
    /\ gpc' = [gpc EXCEPT ![p] = "loop"]
    /\ UNCHANGED <<n, greg>>
    /\ GenFrame

\* ------------------------------------------------------------ specification
Init == PInit /\ CInit /\ WInit /\ GInit

Next ==
    \/ \E s \in Starters : StartCall(s)
    \/ \E s \in Starters : StartUnblock(s)
    \/ \E s \in Starters : StartReturn(s)
    \/ SetRunning
    \/ WgAdd
    \/ LoopCheck
    \/ NextIncrement
    \/ NextReturn
    \/ Encode
    \/ Publish
    \/ Notify
    \/ WgDone
    \/ \E t \in Stoppers : StopCall(t)
    \/ \E t \in Stoppers : StopUnblock(t)
    \/ \E t \in Stoppers : StopClear(t)
    \/ \E t \in Stoppers : StopWait(t)

Spec == Init /\ [][Next]_vars

\* the producer with the moment of  p.running = false  recorded
CountedNext ==
    \/ \E s \in Starters : StartCall(s)
    \/ \E s \in Starters : StartUnblock(s)
    \/ \E s \in Starters : StartReturn(s)
    \/ SetRunning
    \/ WgAdd
    \/ LoopCheck
    \/ NextIncrement
    \/ NextReturn
    \/ Encode
    \/ Publish
    \/ Notify
    \/ WgDone
    \/ \E t \in Stoppers : StopCall(t)
    \/ \E t \in Stoppers : StopUnblock(t)
    \/ \E t \in Stoppers : StopClearCounted(t)
    \/ \E t \in Stoppers : StopWait(t)

CountedSpec == Init /\ [][CountedNext]_vars

\* the goroutines are scheduled fairly; callers of Start and Stop are free
LoopStep ==
    \/ SetRunning
    \/ WgAdd
    \/ LoopCheck
    \/ NextIncrement
    \/ NextReturn
    \/ Encode
    \/ Publish
    \/ Notify
    \/ WgDone

\* the steps of goroutines inside Start and inside Stop
StartStep == \E s \in Starters : StartUnblock(s) \/ StartReturn(s)

StopStep == \E t \in Stoppers : StopUnblock(t) \/ StopClear(t) \/ StopWait(t)

FairSpec ==
    /\ Spec
    /\ WF_vars(LoopStep)
    /\ WF_vars(StartStep)
    /\ WF_vars(StopStep)

\* the consumer command, beside a producer that is never started
CmdInit == Init /\ ~hasDone

CmdNext ==
    \/ StartupCall
    \/ CreateConsumer
    \/ SpawnWatcher
    \/ SignalNotify
    \/ AcStart
    \/ ConsumerWork
    \/ AcStartStopped
    \/ AcStartFails
    \/ CloseDone
    \/ ExecuteReturn
    \/ WatcherSelect
    \/ WatcherDone
    \/ WatcherStop
    \/ WatcherStopReturn
    \/ SignalArrive
    \/ SignalRelay

CmdSpec == CmdInit /\ [][CmdNext]_vars

\* every goroutine, the workers and the signal relay are scheduled; the arrival
\* of a signal and a failure of the consumer are not forced
CmdFairSpec ==
    /\ CmdSpec
    /\ WF_vars(StartupCall \/ CreateConsumer \/ SpawnWatcher \/ SignalNotify \/ AcStart
                \/ AcStartStopped \/ CloseDone \/ ExecuteReturn)
    /\ WF_vars(WatcherSelect \/ WatcherDone \/ WatcherStop \/ WatcherStopReturn)
    /\ WF_vars(SignalRelay)
    /\ WF_vars(ConsumerWork)

\* the worker pool, beside a producer and a command that are never started
PoolNext ==
    \/ \E w \in Workers : Consume(w)
    \/ \E w \in Workers : Acquire(w)
    \/ \E w \in Workers : Clone(w)
    \/ \E w \in Workers : Begin(w)
    \/ \E w \in Workers : Apply(w)
    \/ \E w \in Workers : Commit(w)
    \/ \E w \in Workers : DeadlineExceeded(w)
    \/ \E w \in Workers : Release(w)
    \/ \E w \in Workers : Die(w)
    \/ \E k \in Repos : Tick(k)
    \/ \E k \in Repos : Expire(k)

PoolSpec == CmdInit /\ [][PoolNext]_vars

\* the clock of the lock backend advances and expired handles are dropped
PoolFairSpec == PoolSpec /\ \A k \in Repos : WF_vars(Tick(k) \/ Expire(k))

\* several Producers generating jobs, beside a command that is never started
GenNext ==
    \/ \E p \in Producers : GenCall(p)
    \/ \E p \in Producers : GenLoad(p)
    \/ \E p \in Producers : GenStore(p)
    \/ \E p \in Producers : GenReturn(p)

GenSpec == CmdInit /\ [][GenNext]_vars

\* ================================================================ properties
AllStopsReturned == \A t \in Stoppers : tpc[t] = "returned"

NilDone == {i \in 1..Len(doneLog) : doneLog[i].err = "nil"}

IterationInFlight == lpc \in {"encode", "publish", "notify"}

\* C1: when the first Stop call is issued while the publish loop is active, a
\* Stop call (the first, a concurrent or a repeated one) has returned only if the
\* loop has exited, and no Publish and no Done happened after a Stop call returned.
StopWaitsForLoop ==
    firstStop = "active" =>
        /\ SomeStopReturned => LoopExited
        /\ ~lateEffect

\* C1 witness: Stop was first called while the loop was active, every other Stop
\* call was issued before that one completed, all of them returned, the loop
\* having exited after it published a job.
StopWaitsForLoopWitness ==
    /\ firstStop = "active"
    /\ AllStopsReturned
    /\ ~repeatStop
    /\ LoopExited
    /\ Len(publishedLog) > 0

\* C2: once a Stop call issued before Start set the running flag has returned, the
\* producer is not running and no publish loop is active.  Stated for the first
\* Stop call, which returns before any other.
StopBeforeStartIsSafe ==
    (firstStop = "early" /\ SomeStopReturned) =>
        /\ ~IsRunning
        /\ ~LoopActive

\* C3: start() is executed at most once, and the loop of a Start call issued after
\* a Stop call returned publishes nothing.
LoopStartedOnce ==
    /\ loopStarts <= 1
    /\ runnerLate => publishedLog = <<>>

\* C4: p.running = false is executed at most once, and a Stop call issued after a
\* Stop call completed returns at once and changes no field of the producer.
StopIsIdempotent ==
    /\ [](clears <= 1 /\ (SomeStopReturned => clears = 1))
    /\ [][\A t \in Stoppers :
            (tpc[t] = "idle" /\ stopOnce = "done" /\ tpc'[t] # "idle") =>
                /\ tpc'[t] = "returned"
                /\ UNCHANGED <<running, startOnce, stopOnce, wg, n, lpc, cur,
                               publishedLog, doneLog, clears>>]_vars

\* C4 witness: both Stop calls returned, one of them issued after the other had
\* completed, and the flag was cleared once, ending a running loop.
StopIsIdempotentWitness ==
    /\ AllStopsReturned
    /\ repeatStop
    /\ clears = 1
    /\ LoopExited

\* C5: IsRunning is true while the loop is active and no Stop was requested, and
\* false at every point after a Stop call has returned.
IsRunningReflectsLifecycle ==
    /\ (LoopActive /\ firstStop = "none") => IsRunning
    /\ SomeStopReturned => ~IsRunning

LoopEndsOnlyByStop ==
    /\ lpc \in {"break", "exited"} => (clears >= 1 /\ ~running)
    /\ (\E s \in Starters : spc[s] = "returned") => (LoopExited /\ firstStop # "none")

\* C8 witness: a source error and a Publish or Encode error occurred, the loop
\* went on, and it exited when Stop cleared the flag.
LoopEndsOnlyByStopWitness ==
    /\ LoopExited
    /\ srcErrs > 0
    /\ \E i \in 1..Len(doneLog) : doneLog[i].err # "nil"
    /\ \E s \in Starters : spc[s] = "returned"

\* the calls of Start and Stop that were made have returned
CallsReturned ==
    /\ \A s \in Starters : spc[s] \in {"idle", "returned"}
    /\ \A t \in Stoppers : tpc[t] \in {"idle", "returned"}

\* C9: when Stop is first called while the loop is active, under fair scheduling
\* the loop exits and the calls of Start and Stop return, whatever next, Encode
\* and Publish return.
StopTerminates ==
    (firstStop = "active") ~> (LoopExited /\ CallsReturned)

\* C9 witness: every call of next failed, Stop was called while the loop was
\* active, the loop exited and Start and Stop returned.
StopTerminatesWitness ==
    /\ firstStop = "active"
    /\ srcErrs = n
    /\ n > 0
    /\ LoopExited
    /\ AllStopsReturned
    /\ \E s \in Starters : spc[s] = "returned"

\* C10: a termination signal that arrives after signal.Notify while the consumer
\* is running leads to the watcher calling ac.Stop because of a signal, unless the
\* consumer ended by an error of its own.  Stated for the first signal the process
\* receives.
SignalStopsConsumer ==
    (sigInScope /\ sigArrived = 1) ~>
        \/ acState = "failed"
        \/ stopCause = "signal" /\ acState \in {"stopping", "stopped"}

\* C11: once a stop was triggered (a signal was handed to the watcher, or Start
\* returned and done was closed), Execute has not returned unless the watcher's
\* call of ac.Stop() has completed
ShutdownWaitsForWatcher ==
    (cpc = "returned" /\ (doneClosed \/ stopCause # "none")) => wpc = "finished"

\* the names of the startup calls
StartupNames == {StartupCalls[i] : i \in 1..Len(StartupCalls)}

\* C12: a failed startup call makes Execute return that error with the worker pool
\* and the consumer never created, the watcher never spawned and Start never
\* called; the pool exists only after all seven calls succeeded; any other error
\* of Execute is the one returned by ac.Start()
StartupErrorsAreFatal ==
    /\ cerr \in StartupNames =>
          /\ cpc = "returned"
          /\ cerr = StartupCalls[cstep]
          /\ ~poolCreated /\ acState = "new" /\ wpc = "none" /\ ~registered
    /\ poolCreated => cstep = Len(StartupCalls) /\ cpc \notin {"startup", "pool"}
    /\ cerr \notin StartupNames \cup {"nil"} =>
          /\ cerr = "ac.Start" /\ acState = "failed"
          /\ cpc \in {"close", "return", "returned"}

\* the lock service could not be created and Execute returned that error
StartupErrorsAreFatalWitness ==
    /\ cerr = "lock.New" /\ cpc = "returned" /\ cstep = 4
    /\ ~poolCreated /\ acState = "new"

\* C13: at most one LockHandle exists for a repository key at any instant, the
\* unit of work (clone, begin, apply, commit) runs only under the handle, and
\* no two workers are inside the unit of work for the same repository
OneHandlePerKey ==
    \A k \in Repos :
        /\ Cardinality(handles[k]) <= 1
        /\ \A w \in Workers : InUnit(w, k) => w \in handles[k]
        /\ \A v, w \in Workers : (InUnit(v, k) /\ InUnit(w, k)) => v = w

\* two jobs for the same repository were delivered to different workers: one is
\* inside its unit of work while the other asks for the lock
OneHandlePerKeyWitness ==
    \E k \in Repos, v, w \in Workers :
        /\ v # w
        /\ InUnit(w, k) /\ wkpc[w] = "commit"
        /\ wkpc[v] = "acquire" /\ wkRepo[v] = k

\* C14: a worker that consumes or is about to ask for a lock holds no handle:
\* the handle of the previous unit of work was released whatever its outcome
LockReleasedBeforeNext ==
    \A w \in Workers :
        wkpc[w] \in {"consume", "acquire"} => \A k \in Repos : w \notin handles[k]

\* a key freed after a deadline expiry has been acquired again
LockReleasedBeforeNextWitness ==
    \E k \in Repos, w \in Workers :
        lastFree[k] = "timeout" /\ handles[k] = {w} /\ InUnit(w, k)

\* C15: a transaction that failed or was abandoned reads back the durable
\* version Begin saw, and the durable version of a repository changes only by
\* a Commit that succeeds, to the content of the committing workspace
FailedTransactionLeavesDurable ==
    /\ [](\A w \in Workers :
             (wkpc[w] = "release" /\ wkTx[w] \in {"failed", "abandoned"})
                 => durable[wkRepo[w]] = txBase[w])
    /\ [][\A k \in Repos :
             durable'[k] # durable[k] =>
                 \E w \in Workers :
                     /\ wkpc[w] = "commit" /\ wkRepo[w] = k
                     /\ wkTx'[w] = "committed"
                     /\ durable'[k] = workspace[w]]_vars

\* begin, mutate, failed commit: the workspace differs from the durable version
FailedTransactionLeavesDurableWitness ==
    \E w \in Workers :
        /\ wkpc[w] = "release" /\ wkTx[w] = "failed"
        /\ workspace[w] # txBase[w]
        /\ durable[wkRepo[w]] = txBase[w]

\* C16: a key held by a worker whose process died becomes free again
LockOfDeadExpires == \A k \in Repos : HeldByDead(k) ~> LockFree(k)

\* the handle of a dead worker expired and another worker acquired the key
LockOfDeadExpiresWitness ==
    \E k \in Repos, w \in Workers :
        lastFree[k] = "expired" /\ handles[k] = {w} /\ w \notin Dead /\ Dead # {}

\* C17: once Stop has cleared the running flag at most one further job is
\* published and at most one further Done notification is issued, and none of
\* either after a Stop call has returned
OneIterationAfterStop ==
    /\ clears >= 1 =>
          /\ Len(publishedLog) <= atClear[1] + 1
          /\ Len(doneLog) <= atClear[2] + 1
    /\ ~lateEffect

\* C18: a Producer without a Done notifier issues no notification and goes on
\* exactly as one with a notifier: the notify step is always possible, and
\* whether or not Done is installed it ends the iteration and leaves the
\* source reads, the publishes, the running flag and the Start and Stop calls
\* as they are; the Done log changes in that step only
AbsentNotifierIsNoOp ==
    /\ [](~hasDone => doneLog = <<>>)
    /\ [](lpc = "notify" => ENABLED Notify)
    /\ [][(lpc = "notify" /\ lpc' # "notify") =>
             /\ lpc' = "check" /\ cur' = NoJob
             /\ UNCHANGED <<running, startOnce, stopOnce, wg, n, spc, tpc, publishedLog,
                            obtained, srcErrs, errorCalled, clears, loopStarts>>]_vars
    /\ [][doneLog' # doneLog => (hasDone /\ lpc = "notify" /\ lpc' = "check")]_vars

\* a Producer without a notifier published, was stopped and left its loop
AbsentNotifierIsNoOpWitness ==
    /\ ~hasDone /\ Len(publishedLog) >= 1 /\ obtained > Len(publishedLog)
    /\ LoopExited /\ SomeStopReturned /\ ~IsRunning

\* C19: no two jobs returned by next() carry the same RepositoryID, and as long
\* as one Producer alone has called next() the IDs are 1, 2, 3, ... in order
UniqueRepositoryIDs ==
    /\ \A i, j \in 1..Len(genLog) : i # j => genLog[i].id # genLog[j].id
    /\ \A p \in Producers :
          (\A q \in Producers \ {p} :
               gpc[q] = "loop" /\ \A i \in 1..Len(genLog) : genLog[i].p # q)
              => \A i \in 1..Len(genLog) : genLog[i].id = i
====
